---- MODULE Spec2Model ----
(***************************************************************************)
(* Commitment layer of the SHA-256 flavour of the prover: the Merkle node  *)
(* hash, the per-layer commitment of both backends, the Merkle             *)
(* commit/decommit/verify round trip, the Fiat-Shamir channel (mixes,      *)
(* draws, proof-of-work grind) and the accumulation of quotients.          *)
(*                                                                         *)
(* SHA-256 itself is the sha2 crate's and is not computed here.  A digest  *)
(* is represented by its preimage between two markers, <<-1>> \o m \o      *)
(* <<-2>>: equal digests have equal preimages (collision resistance is     *)
(* idealised) and a digest differs from every input that holds it.  A      *)
(* digest that was never computed (Sha256Hash::default(), a forged hash)   *)
(* is a raw sequence of bytes.  Where the code reads the bytes of a        *)
(* computed digest (trailing_zeros, draw_felt), they are taken from        *)
(* sha_bytes, a table drawn once in Init: the hash is an arbitrary, fixed  *)
(* function.                                                               *)
(*                                                                         *)
(* Field elements are computed: M31 is the integers modulo 2^31 - 1, CM31  *)
(* is <<a, b>> for a + b*i, QM31 is <<c, d>> for c + d*u over CM31.  The   *)
(* channel handles a secure field element by its four coordinates.         *)
(***************************************************************************)
EXTENDS Integers, Sequences, FiniteSets, TLC

VARIABLES
    \* hash_node, applied to one node
    hn_children,        \* children_hashes: <<>> for None, <<left, right>> for Some
    hn_values,          \* column_values, in attach order
    hn_out,             \* <<>> before the call; <<column_hash, node hash>> after
    \* commit_on_layer, by both backends on the same arguments
    cl_log_size,        \* log_size
    cl_prev_layer,      \* prev_layer: <<>> for None, else 2^(log_size+1) hashes
    cl_columns,         \* columns attached to the layer, in attach order
    cpu_layer,          \* CpuBackend's layer; <<>> before it ran
    simd_done,          \* SimdBackend: per node, its hash once computed, else <<>>
    simd_layer,         \* SimdBackend's collected layer; <<>> before collect
    \* Merkle prover and verifier
    mk_pc,              \* "start", "committed", "decommitted", "verified"
    mk_columns,         \* the committed columns, in commit order
    mk_queries,         \* queries: log_size -> set of rows
    mk_layers,          \* MerkleProver.layers, layers[L + 1] of log_size L
    mk_verifier,        \* MerkleVerifier {root, column_log_sizes}
    mk_values,          \* queried values handed to verify, per column
    mk_witness,         \* decommitment.hash_witness handed to verify
    mk_change,          \* what was changed in (values, witness) before verify
    mk_result,          \* verify's result; "" before it ran
    \* Fiat-Shamir channel and proof-of-work grind
    sha_bytes,          \* the bytes of computed digests: a table drawn in Init
    ch_digest,          \* the caller's Sha256Channel.digest
    ch_mixes,           \* how many nonces the caller mixed into its channel
    gr_pc,              \* "idle", "loop", "returned"
    gr_pow_bits,        \* grind's pow_bits
    gr_nonce,           \* grind's nonce
    gr_entry,           \* the caller's digest when grind was entered
    gr_last,            \* the return before this call: <<digest, pow_bits, nonce>>, or <<>>
    \* Fiat-Shamir channel: mixes and draws
    cn_ops,             \* how many channel operations were called
    cn_kind,            \* the last operation called; "" before the first
    cn_prev,            \* the digest before the last operation
    cn_arg,             \* the felts handed to the last mix_felts
    cn_out,             \* what the last operation returned, as a sequence
    cn_class,           \* "mix" or "draw": the kind of the operations since cn_base
    cn_base,            \* the digest before the first operation of this run
    cn_run,             \* felts mixed, or values drawn, since cn_base
    cn_extracts,        \* the extraction hashes the draws since cn_base read
    \* accumulate_quotients
    qt_pc,              \* "idle", "start", "rows", "done"
    qt_log_size,        \* domain.log_size()
    qt_columns,         \* columns: the evaluations, each over the domain's rows
    qt_random_coeff,    \* random_coeff
    qt_sample_batches,  \* sample_batches
    qt_line_coeffs,     \* line_coeffs, per batch and column
    qt_batch_coeffs,    \* batch_random_coeffs, per batch
    qt_den_inv,         \* denominator_inverses, per batch and row
    qt_row,             \* the row the loop is at
    qt_values,          \* values set so far, by row
    qt_terms            \* per batch, the numerator and quotient formed at the last row

hn_vars == <<hn_children, hn_values, hn_out>>
cl_vars == <<cl_log_size, cl_prev_layer, cl_columns, cpu_layer, simd_done, simd_layer>>
mk_vars == <<mk_pc, mk_columns, mk_queries, mk_layers, mk_verifier, mk_values,
             mk_witness, mk_change, mk_result>>
gr_vars == <<sha_bytes, ch_digest, ch_mixes, gr_pc, gr_pow_bits, gr_nonce, gr_entry,
             gr_last>>
cn_vars == <<cn_ops, cn_kind, cn_prev, cn_arg, cn_out, cn_class, cn_base, cn_run,
             cn_extracts>>
qt_vars == <<qt_pc, qt_log_size, qt_columns, qt_random_coeff, qt_sample_batches,
             qt_line_coeffs, qt_batch_coeffs, qt_den_inv, qt_row, qt_values,
             qt_terms>>
vars == <<hn_vars, cl_vars, mk_vars, gr_vars, cn_vars, qt_vars>>

\* ------------------------------------------------------------------ bounds

\* Base field values drawn for columns: 0..MaxValue.
MaxValue == 2
\* Most column values attached to one node in the hash_node checks.
MaxNodeCols == 3
\* Largest log_size of a layer handed to commit_on_layer.
MaxLayerLog == 2
\* Most columns attached to one layer.
MaxLayerCols == 2
\* Largest log_size of a committed column.
MaxLogSize == 2
\* Most columns committed in one tree.
MaxCols == 2
\* Most rows queried in one decommitment, over all log sizes.
MaxQueries == 2
\* Largest nonce grind tries before the search is cut off.
MaxNonce == 3
\* Cells of the table of digest bytes.
NumCells == 3
\* Most nonces the caller mixes into its own channel.
MaxMixes == 1
\* Most operations called on one channel.
MaxOps == 3
\* Most felts mixed, or drawn, by one call.
MaxFelts == 2
\* Largest log_size of the domain quotients are accumulated over.
MaxDomainLog == 2
\* Most sample batches, and most columns in one.
MaxBatches == 2
MaxBatchCols == 2
\* Largest seed of the columns' and the samples' values.
MaxSeed == 1

FieldValues == 0..MaxValue

\* ------------------------------------------------------------------ SHA-256

\* sha2::Sha256::new(): nothing absorbed yet.
Sha256New == <<>>

\* Digest::update: the hasher absorbs data after what it holds.
Sha256Update(hasher, data) == hasher \o data

\* finalize(): the digest of everything absorbed.
Sha256Finalize(hasher) == <<-1>> \o hasher \o <<-2>>

\* Sha256Hash::default(): 32 zero bytes.
Sha256Default == [i \in 1..32 |-> 0]

\* Sha256Hasher::concat_and_hash(v1, v2).
concat_and_hash(v1, v2) ==
    Sha256Finalize(Sha256Update(Sha256Update(Sha256New, v1), v2))

\* Sha256Hasher::hash(data).
Sha256Hasher_hash(data) == Sha256Finalize(Sha256Update(Sha256New, data))

\* core::utils::bws_num_to_bytes: the byte serialisation of one base field
\* element.  Its body is not among the sources; it is taken as an injective,
\* self-delimiting encoding of the value.
bws_num_to_bytes(v) == <<-3, v>>

\* ------------------------------------------------------------------ hash_node

\* The loop of hash_node over the remaining column values, i = 1..len-1:
\* column_values[len - 1 - i] (0-based) is absorbed before the running hash.
RECURSIVE column_hash_loop(_, _, _)
column_hash_loop(column_values, i, hash) ==
    LET len == Len(column_values) IN
    IF i >= len THEN hash
    ELSE column_hash_loop(column_values, i + 1,
            Sha256Finalize(Sha256Update(
                Sha256Update(Sha256New, bws_num_to_bytes(column_values[len - i])),
                hash)))

\* A plausible slip: the loop runs forward over the values.
RECURSIVE column_hash_forward_loop(_, _, _)
column_hash_forward_loop(column_values, i, hash) ==
    LET len == Len(column_values) IN
    IF i > len THEN hash
    ELSE column_hash_forward_loop(column_values, i + 1,
            Sha256Finalize(Sha256Update(
                Sha256Update(Sha256New, bws_num_to_bytes(column_values[i])),
                hash)))

column_hash_forward(column_values) ==
    IF column_values = <<>> THEN <<>>
    ELSE <<column_hash_forward_loop(column_values, 2,
              Sha256Finalize(Sha256Update(Sha256New,
                  bws_num_to_bytes(column_values[1]))))>>

\* let column_hash = ...: <<>> for None, <<hash>> for Some(hash).
column_hash(column_values) ==
    IF column_values = <<>> THEN <<>>
    ELSE LET len == Len(column_values) IN
         <<column_hash_loop(column_values, 1,
              Sha256Finalize(Sha256Update(Sha256New,
                  bws_num_to_bytes(column_values[len]))))>>

\* The match on (children_hashes, column_hash): what the node hasher absorbs.
node_preimage_right_first(children_hashes, ch) ==
    IF children_hashes # <<>> /\ ch # <<>> THEN
        Sha256Update(Sha256Update(Sha256Update(Sha256New,
            children_hashes[2]), ch[1]), children_hashes[1])
    ELSE IF children_hashes # <<>> THEN
        Sha256Update(Sha256Update(Sha256New, children_hashes[2]), children_hashes[1])
    ELSE IF ch # <<>> THEN Sha256Update(Sha256New, ch[1])
    ELSE Sha256New

\* A plausible slip: with children present the column hash is left out.
node_preimage_without_columns(children_hashes, ch) ==
    IF children_hashes # <<>> THEN
        Sha256Update(Sha256Update(Sha256New, children_hashes[1]), children_hashes[2])
    ELSE IF ch # <<>> THEN Sha256Update(Sha256New, ch[1])
    ELSE Sha256New

node_preimage(children_hashes, ch) ==
    IF children_hashes # <<>> /\ ch # <<>> THEN
        Sha256Update(Sha256Update(Sha256Update(Sha256New,
            children_hashes[1]), ch[1]), children_hashes[2])
    ELSE IF children_hashes # <<>> THEN
        Sha256Update(Sha256Update(Sha256New, children_hashes[1]), children_hashes[2])
    ELSE IF ch # <<>> THEN Sha256Update(Sha256New, ch[1])
    ELSE Sha256New

\* A plausible slip: a node with columns only returns its column hash unhashed.
hash_node_bare_column_hash(children_hashes, column_values) ==
    IF children_hashes = <<>> /\ column_values # <<>>
    THEN column_hash(column_values)[1]
    ELSE Sha256Finalize(node_preimage(children_hashes, column_hash(column_values)))

\* Sha256MerkleHasher::hash_node.
hash_node(children_hashes, column_values) ==
    Sha256Finalize(node_preimage(children_hashes, column_hash(column_values)))

\* ------------------------------------------------------------------ inputs

\* Sequences over S of length lo..hi.
SeqsOf(S, lo, hi) == UNION {[1..n -> S] : n \in lo..hi}

\* Hashes a node can be handed as children: a digest never computed, the
\* digest of nothing, and digests of one value.
ChildHashes ==
    {Sha256Default, Sha256Hasher_hash(<<>>)}
        \cup {Sha256Hasher_hash(bws_num_to_bytes(v)) : v \in FieldValues}

\* ------------------------------------------------------------------ hash_node, one call

\* The variables of the other components, at rest.
IdleHashNode == hn_children = <<>> /\ hn_values = <<>> /\ hn_out = <<>>

IdleLayer ==
    /\ cl_log_size = 0 /\ cl_prev_layer = <<>> /\ cl_columns = <<>>
    /\ cpu_layer = <<>> /\ simd_done = <<>> /\ simd_layer = <<>>

IdleMerkle ==
    /\ mk_pc = "idle" /\ mk_columns = <<>> /\ mk_queries = <<>> /\ mk_layers = <<>>
    /\ mk_verifier = <<>> /\ mk_values = <<>> /\ mk_witness = <<>>
    /\ mk_change = "" /\ mk_result = ""

\* A 32-byte digest ending in zero_bytes zero bytes below a byte `top`.
DigestImage(zero_bytes, top) ==
    [i \in 1..32 |-> IF i > 32 - zero_bytes THEN 0
                     ELSE IF i = 32 - zero_bytes THEN top ELSE 255]

IdleGrind ==
    /\ sha_bytes = [c \in 0..(NumCells - 1) |-> DigestImage(0, 255)]
    /\ ch_digest = Sha256Default /\ ch_mixes = 0
    /\ gr_pc = "idle" /\ gr_pow_bits = 0 /\ gr_nonce = 0
    /\ gr_entry = <<>> /\ gr_last = <<>>

IdleQuotients ==
    /\ qt_pc = "idle" /\ qt_log_size = 0 /\ qt_columns = <<>>
    /\ qt_random_coeff = <<>> /\ qt_sample_batches = <<>>
    /\ qt_line_coeffs = <<>> /\ qt_batch_coeffs = <<>> /\ qt_den_inv = <<>>
    /\ qt_row = 0 /\ qt_values = <<>> /\ qt_terms = <<>>

IdleChannel ==
    /\ cn_ops = 0 /\ cn_kind = "" /\ cn_prev = <<>> /\ cn_arg = <<>> /\ cn_out = <<>>
    /\ cn_class = "" /\ cn_base = <<>> /\ cn_run = <<>> /\ cn_extracts = <<>>

InitHashNode ==
    /\ IdleLayer /\ IdleMerkle /\ IdleGrind /\ IdleChannel /\ IdleQuotients
    /\ hn_children \in {<<>>} \cup (ChildHashes \X ChildHashes)
    /\ hn_values \in SeqsOf(FieldValues, 0, MaxNodeCols)
    /\ hn_out = <<>>

\* One call of hash_node; the column hash it computes on the way is kept.
HashNode ==
    /\ hn_out = <<>>
    /\ hn_out' = <<column_hash(hn_values), hash_node(hn_children, hn_values)>>
    /\ UNCHANGED <<hn_children, hn_values, cl_vars, mk_vars, cn_vars, gr_vars, qt_vars>>

NextHashNode == HashNode

SpecHashNode == InitHashNode /\ [][NextHashNode]_vars

\* H(bytes(v_0) || H(bytes(v_1) || ... H(bytes(v_{n-1})))), by the values' order.
RECURSIVE ChainedHash(_)
ChainedHash(vs) ==
    IF Len(vs) = 1 THEN <<-1>> \o bws_num_to_bytes(vs[1]) \o <<-2>>
    ELSE <<-1>> \o bws_num_to_bytes(vs[1]) \o ChainedHash(Tail(vs)) \o <<-2>>

\* vs with the values at i and j exchanged.
Swapped(vs, i, j) ==
    [k \in 1..Len(vs) |-> IF k = i THEN vs[j] ELSE IF k = j THEN vs[i] ELSE vs[k]]

\* C8: with children (left, right) given, the node hash is
\* H(left || columnHash || right) when the node has column values and
\* H(left || right) when it has none, left before right.
C8_ChildrenNodeHash ==
    (hn_out # <<>> /\ hn_children # <<>>) =>
        hn_out[2] =
            IF hn_values # <<>>
            THEN <<-1>> \o hn_children[1] \o ChainedHash(hn_values)
                        \o hn_children[2] \o <<-2>>
            ELSE <<-1>> \o hn_children[1] \o hn_children[2] \o <<-2>>

C8_Witness ==
    /\ hn_out # <<>>
    /\ hn_children # <<>>
    /\ hn_children[1] # hn_children[2]
    /\ Len(hn_values) >= 2

\* C9 as stated: with no children and some column values, the node hash is
\* columnHash itself.
C9_NodeHashIsColumnHash ==
    (hn_out # <<>> /\ hn_children = <<>> /\ hn_values # <<>>) =>
        hn_out[2] = hn_out[1][1]

\* C9, amended: with no children and some column values, the node hash is
\* the SHA-256 digest of columnHash, H(columnHash), and never columnHash.
C9_NodeHashIsHashOfColumnHash ==
    (hn_out # <<>> /\ hn_children = <<>> /\ hn_values # <<>>) =>
        /\ hn_out[2] = <<-1>> \o ChainedHash(hn_values) \o <<-2>>
        /\ hn_out[2] # hn_out[1][1]

C9_Witness ==
    /\ hn_out # <<>>
    /\ hn_children = <<>>
    /\ Len(hn_values) >= 1

\* C10: columnHash of v_0..v_{n-1} is H(bytes(v_{n-1})) folded with
\* h = H(bytes(v_j) || h) for j = n-2 down to 0, each value absorbed once,
\* the last attached first; exchanging two different values changes it.
C10_ColumnHashChain ==
    (hn_out # <<>> /\ hn_values # <<>>) =>
        /\ hn_out[1] = <<ChainedHash(hn_values)>>
        /\ \A i, j \in 1..Len(hn_values) :
              (i < j /\ hn_values[i] # hn_values[j]) =>
                  column_hash(Swapped(hn_values, i, j)) # hn_out[1]

C10_Witness ==
    /\ hn_out # <<>>
    /\ Len(hn_values) >= 3
    /\ hn_values[1] # hn_values[3]
    /\ hn_values[1] # hn_values[2]


\* ------------------------------------------------------------------ commit_on_layer

\* A column of 2^log_size base field values (row i holds seed + i, reduced).
ColumnOf(seed, log_size) ==
    [i \in 1..(2 ^ log_size) |-> (seed + i - 1) % (MaxValue + 1)]

\* A previous layer for log_size: 2^(log_size+1) hashes, neighbours different.
PrevLayerOf(seed, log_size) ==
    [k \in 1..(2 ^ (log_size + 1)) |->
        Sha256Hasher_hash(bws_num_to_bytes((seed + k) % (MaxValue + 1)))]

\* A plausible slip: the two children are taken in the wrong order.
children_of_swapped(prev_layer, i) ==
    IF prev_layer = <<>> THEN <<>>
    ELSE <<prev_layer[2 * i + 2], prev_layer[2 * i + 1]>>

\* prev_layer.map(|prev_layer| (prev_layer[2 * i], prev_layer[2 * i + 1])), i 0-based.
children_of(prev_layer, i) ==
    IF prev_layer = <<>> THEN <<>>
    ELSE <<prev_layer[2 * i + 1], prev_layer[2 * i + 2]>>

\* columns.iter().map(|column| column[i]).collect_vec(), i 0-based.
node_values(columns, i) == [c \in 1..Len(columns) |-> columns[c][i + 1]]

\* BaseColumn::at(i) of the SIMD column type: element i (0-based).
BaseColumn_at(column, i) == column[i + 1]

\* CpuBackend::commit_on_layer.
cpu_commit_on_layer(log_size, prev_layer, columns) ==
    [n \in 1..(2 ^ log_size) |->
        hash_node(children_of(prev_layer, n - 1), node_values(columns, n - 1))]

\* A plausible slip: the closure gathers the columns in reverse.
simd_node_reversed_columns(prev_layer, columns, i) ==
    hash_node(children_of(prev_layer, i),
        [c \in 1..Len(columns) |-> BaseColumn_at(columns[Len(columns) + 1 - c], i)])

\* SimdBackend::commit_on_layer, the closure mapped over the node indices.
simd_node(prev_layer, columns, i) ==
    hash_node(children_of(prev_layer, i),
        [c \in 1..Len(columns) |-> BaseColumn_at(columns[c], i)])

\* .collect(): the hashes by node index, whatever order they were computed in.
simd_collect(done) == [n \in 1..Len(done) |-> done[n]]

InitLayer ==
    /\ IdleHashNode /\ IdleMerkle /\ IdleGrind /\ IdleChannel /\ IdleQuotients
    /\ cl_log_size \in 0..MaxLayerLog
    /\ cl_prev_layer \in {<<>>} \cup {PrevLayerOf(s, cl_log_size) : s \in FieldValues}
    /\ \E seeds \in SeqsOf(FieldValues, 0, MaxLayerCols) :
          cl_columns = [c \in 1..Len(seeds) |-> ColumnOf(seeds[c], cl_log_size)]
    /\ cpu_layer = <<>>
    /\ simd_done = [n \in 1..(2 ^ cl_log_size) |-> <<>>]
    /\ simd_layer = <<>>

\* CpuBackend::commit_on_layer on the arguments.
CpuCommitOnLayer ==
    /\ simd_done # <<>>
    /\ cpu_layer = <<>>
    /\ cpu_layer' = cpu_commit_on_layer(cl_log_size, cl_prev_layer, cl_columns)
    /\ UNCHANGED <<cl_log_size, cl_prev_layer, cl_columns, simd_done, simd_layer, hn_vars, mk_vars, cn_vars, gr_vars, qt_vars>>

\* SimdBackend::commit_on_layer hashes one node; the nodes are taken in any
\* order (0..1 << log_size in turn, or rayon's into_par_iter()).
SimdHashNode ==
    /\ cpu_layer # <<>>
    /\ simd_layer = <<>>
    /\ \E n \in 1..Len(simd_done) :
          /\ simd_done[n] = <<>>
          /\ simd_done' = [simd_done EXCEPT
                ![n] = simd_node(cl_prev_layer, cl_columns, n - 1)]
    /\ UNCHANGED <<cl_log_size, cl_prev_layer, cl_columns, cpu_layer, simd_layer, hn_vars, mk_vars, cn_vars, gr_vars, qt_vars>>

\* SimdBackend::commit_on_layer returns once every node is hashed.
SimdCollect ==
    /\ cpu_layer # <<>>
    /\ simd_layer = <<>>
    /\ \A n \in 1..Len(simd_done) : simd_done[n] # <<>>
    /\ simd_layer' = simd_collect(simd_done)
    /\ UNCHANGED <<cl_log_size, cl_prev_layer, cl_columns, cpu_layer, simd_done, hn_vars, mk_vars, cn_vars, gr_vars, qt_vars>>

NextLayer == CpuCommitOnLayer \/ SimdHashNode \/ SimdCollect

SpecLayer == InitLayer /\ [][NextLayer]_vars

\* C7: on the same log_size, previous layer and attached columns, the CPU
\* and the SIMD commit_on_layer (its nodes hashed in any order) return the
\* same layer of exactly 2^log_size hashes, node i being hash_node of the
\* children (prev[2i], prev[2i+1]), when a previous layer is given, and of
\* column[i] for each attached column in attach order.
C7_BackendsAgree ==
    simd_layer # <<>> =>
        /\ simd_layer = cpu_layer
        /\ Len(simd_layer) = 2 ^ cl_log_size
        /\ \A i \in 0..(2 ^ cl_log_size - 1) :
              simd_layer[i + 1] =
                  hash_node(
                      IF cl_prev_layer = <<>> THEN <<>>
                      ELSE <<cl_prev_layer[2 * i + 1], cl_prev_layer[2 * i + 2]>>,
                      [c \in 1..Len(cl_columns) |-> cl_columns[c][i + 1]])

C7_Witness ==
    /\ simd_layer # <<>>
    /\ cl_log_size = MaxLayerLog
    /\ cl_prev_layer # <<>>
    /\ Len(cl_columns) = 2
    /\ cl_columns[1] # cl_columns[2]

\* ------------------------------------------------------------------ Merkle tree

\* column.len().ilog2() of a column of 2^k values.
ilog2(n) == CHOOSE k \in 0..n : 2 ^ k <= n /\ n < 2 ^ (k + 1)

column_log_size(column) == ilog2(Len(column))

\* The largest of some log sizes.
max_log_size(log_sizes) ==
    CHOOSE m \in {log_sizes[c] : c \in 1..Len(log_sizes)} :
        \A c \in 1..Len(log_sizes) : log_sizes[c] <= m

\* The members of a set of numbers, ascending.
RECURSIVE sorted(_)
sorted(S) ==
    IF S = {} THEN <<>>
    ELSE LET m == CHOOSE x \in S : \A y \in S : x <= y
         IN <<m>> \o sorted(S \ {m})

\* The columns attached at layer log_size, in commit order (their indices).
columns_at(log_sizes, log_size) ==
    sorted({c \in 1..Len(log_sizes) : log_sizes[c] = log_size})

\* Layer log_size of the tree over the columns: commit_on_layer on the layer
\* above it in log_size (none at the largest) and the columns attached here.
RECURSIVE commit_layer(_, _, _)
commit_layer(columns, log_size, max) ==
    LET log_sizes == [c \in 1..Len(columns) |-> column_log_size(columns[c])]
        here == columns_at(log_sizes, log_size)
    IN cpu_commit_on_layer(log_size,
           IF log_size = max THEN <<>> ELSE commit_layer(columns, log_size + 1, max),
           [k \in 1..Len(here) |-> columns[here[k]]])

\* MerkleProver::commit: the layers, layers[L + 1] being the layer of log_size L.
MerkleProver_commit(columns) ==
    LET max == max_log_size([c \in 1..Len(columns) |-> column_log_size(columns[c])])
    IN [l \in 1..(max + 1) |-> commit_layer(columns, l - 1, max)]

\* MerkleProver::root.
MerkleProver_root(layers) == layers[1][1]

\* The nodes of layer log_size known to prover and verifier: the rows
\* queried at this log_size and the parents of the known nodes one layer down.
RECURSIVE known_nodes(_, _, _)
known_nodes(queries, log_size, max) ==
    IF log_size > max THEN {}
    ELSE queries[log_size]
            \cup {i \div 2 : i \in known_nodes(queries, log_size + 1, max)}
\* The hashes of the layer below that the known nodes need and that cannot be
\* derived from known nodes there, appended in node order, left before right.
RECURSIVE decommit_nodes(_, _, _, _)
decommit_nodes(nodes, known_below, below, hash_witness) ==
    IF nodes = <<>> THEN hash_witness
    ELSE LET i == Head(nodes)
             w1 == IF 2 * i \in known_below THEN hash_witness
                   ELSE Append(hash_witness, below[2 * i + 1])
             w2 == IF 2 * i + 1 \in known_below THEN w1
                   ELSE Append(w1, below[2 * i + 2])
         IN decommit_nodes(Tail(nodes), known_below, below, w2)

\* The witness, layer by layer from the largest log_size down to the root.
RECURSIVE decommit_layers(_, _, _, _, _)
decommit_layers(layers, queries, log_size, max, hash_witness) ==
    IF log_size < 0 THEN hash_witness
    ELSE decommit_layers(layers, queries, log_size - 1, max,
            IF log_size = max THEN hash_witness
            ELSE decommit_nodes(sorted(known_nodes(queries, log_size, max)),
                     known_nodes(queries, log_size + 1, max),
                     layers[log_size + 2], hash_witness))

\* MerkleProver::decommit: the opened values, per column in commit order and
\* by row, of the known nodes of the column's layer; and the hash witness.
MerkleProver_decommit(layers, queries, columns) ==
    LET max == Len(layers) - 1 IN
    [values |->
        [c \in 1..Len(columns) |->
            LET rows == sorted(known_nodes(queries, column_log_size(columns[c]), max))
            IN [k \in 1..Len(rows) |-> columns[c][rows[k] + 1]]],
     hash_witness |-> decommit_layers(layers, queries, max, max, <<>>)]

\* A plausible slip: two witness hashes are counted for every known node.
RECURSIVE witness_count_all_children(_, _, _)
witness_count_all_children(queries, log_size, max) ==
    IF log_size >= max THEN 0
    ELSE 2 * Cardinality(known_nodes(queries, log_size, max))
            + witness_count_all_children(queries, log_size + 1, max)

\* How many witness hashes the queries call for: per layer below the
\* largest, the children of its known nodes that are not known themselves.
RECURSIVE witness_count(_, _, _)
witness_count(queries, log_size, max) ==
    IF log_size >= max THEN 0
    ELSE LET known == known_nodes(queries, log_size, max)
             below == known_nodes(queries, log_size + 1, max)
         IN Cardinality({ch \in {2 * i : i \in known} \cup {2 * i + 1 : i \in known} :
                            ch \notin below})
            + witness_count(queries, log_size + 1, max)

\* The verifier's pass over the known nodes of one layer, node k onward:
\* a child's hash is the one recomputed below or else the next witness hash.
\* acc.w is the next witness hash to read, acc.hashes the hashes so far.
RECURSIVE verify_nodes(_, _, _, _, _, _, _, _)
verify_nodes(nodes, k, below, has_below, here, queried_values, hash_witness, acc) ==
    IF k > Len(nodes) THEN acc
    ELSE LET i == nodes[k]
             left_known == (2 * i) \in DOMAIN below
             right_known == (2 * i + 1) \in DOMAIN below
             left == IF left_known THEN below[2 * i] ELSE hash_witness[acc.w]
             w1 == IF left_known THEN acc.w ELSE acc.w + 1
             right == IF right_known THEN below[2 * i + 1] ELSE hash_witness[w1]
             w2 == IF right_known THEN w1 ELSE w1 + 1
             node_hashes == IF has_below THEN <<left, right>> ELSE <<>>
             values == [n \in 1..Len(here) |-> queried_values[here[n]][k]]
         IN verify_nodes(nodes, k + 1, below, has_below, here, queried_values,
                hash_witness,
                [w |-> IF has_below THEN w2 ELSE acc.w,
                 hashes |-> acc.hashes @@ (i :> hash_node(node_hashes, values))])

\* The verifier's pass over the layers, from the largest log_size to the root.
RECURSIVE verify_layers(_, _, _, _, _, _, _)
verify_layers(column_log_sizes, queries, queried_values, hash_witness, log_size, max, acc) ==
    IF log_size < 0 THEN acc
    ELSE verify_layers(column_log_sizes, queries, queried_values, hash_witness,
            log_size - 1, max,
            verify_nodes(sorted(known_nodes(queries, log_size, max)), 1,
                acc.hashes, log_size < max, columns_at(column_log_sizes, log_size),
                queried_values, hash_witness, [w |-> acc.w, hashes |-> <<>>]))

\* MerkleVerifier::verify.  The counts are checked before anything is hashed.
MerkleVerifier_verify(verifier, queries, queried_values, hash_witness) ==
    LET sizes == verifier.column_log_sizes
        max == max_log_size(sizes)
        n_witness == witness_count(queries, 0, max)
        n_values(c) == Cardinality(known_nodes(queries, sizes[c], max))
        computed == verify_layers(sizes, queries, queried_values, hash_witness,
                        max, max, [w |-> 1, hashes |-> <<>>])
    IN IF Len(hash_witness) < n_witness THEN "WitnessTooShort"
       ELSE IF Len(hash_witness) > n_witness THEN "WitnessTooLong"
       ELSE IF \E c \in 1..Len(sizes) : Len(queried_values[c]) < n_values(c)
            THEN "ColumnValuesTooShort"
       ELSE IF \E c \in 1..Len(sizes) : Len(queried_values[c]) > n_values(c)
            THEN "ColumnValuesTooLong"
       ELSE IF computed.hashes[0] # verifier.root THEN "RootMismatch"
       ELSE "Ok"

\* The subsets of S of at most k members.
RECURSIVE subsets_up_to(_, _)
subsets_up_to(S, k) ==
    IF k = 0 THEN {{}}
    ELSE LET smaller == subsets_up_to(S, k - 1)
         IN smaller \cup {T \cup {x} : T \in smaller, x \in S}

\* Columns of any log sizes and a query map of some rows per log size.
InitMerkle ==
    /\ IdleHashNode /\ IdleLayer /\ IdleGrind /\ IdleChannel /\ IdleQuotients
    /\ mk_pc = "start"
    /\ \E sizes \in SeqsOf(0..MaxLogSize, 1, MaxCols) :
          /\ mk_columns = [c \in 1..Len(sizes) |-> ColumnOf(c - 1, sizes[c])]
          /\ LET max == max_log_size(sizes)
                 rows == {<<l, r>> : l \in 0..max, r \in 0..(2 ^ max - 1)}
                 in_tree == {q \in rows : q[2] < 2 ^ q[1]}
             IN \E Q \in subsets_up_to(in_tree, MaxQueries) \ {{}} :
                   mk_queries = [l \in 0..max |-> {q[2] : q \in {x \in Q : x[1] = l}}]
    /\ mk_layers = <<>> /\ mk_verifier = <<>> /\ mk_values = <<>>
    /\ mk_witness = <<>> /\ mk_change = "" /\ mk_result = ""

\* MerkleProver::commit, and the verifier built from its root.
Commit ==
    /\ mk_pc = "start"
    /\ mk_pc' = "committed"
    /\ mk_layers' = MerkleProver_commit(mk_columns)
    /\ mk_verifier' =
          [root |-> MerkleProver_root(mk_layers'),
           column_log_sizes |->
               [c \in 1..Len(mk_columns) |-> column_log_size(mk_columns[c])]]
    /\ UNCHANGED <<mk_columns, mk_queries, mk_values, mk_witness, mk_change,
                   mk_result, hn_vars, cl_vars, gr_vars, cn_vars, qt_vars>>

\* MerkleProver::decommit.
Decommit ==
    /\ mk_pc = "committed"
    /\ mk_pc' = "decommitted"
    /\ LET d == MerkleProver_decommit(mk_layers, mk_queries, mk_columns)
       IN mk_values' = d.values /\ mk_witness' = d.hash_witness
    /\ UNCHANGED <<mk_columns, mk_queries, mk_layers, mk_verifier, mk_change,
                   mk_result, hn_vars, cl_vars, gr_vars, cn_vars, qt_vars>>

\* verify on (queries, values, witness), the latter two as given.
Verified(change, values, witness) ==
    /\ mk_pc = "decommitted"
    /\ mk_pc' = "verified"
    /\ mk_change' = change
    /\ mk_values' = values
    /\ mk_witness' = witness
    /\ mk_result' = MerkleVerifier_verify(mk_verifier, mk_queries, values, witness)
    /\ UNCHANGED <<mk_columns, mk_queries, mk_layers, mk_verifier, hn_vars, cl_vars, gr_vars, cn_vars, qt_vars>>

\* Hashes a forger may put in place of a witness hash.
ForgedHashes == {Sha256Default, mk_verifier.root}

\* seq without its element at k.
without(seq, k) ==
    [n \in 1..(Len(seq) - 1) |-> IF n < k THEN seq[n] ELSE seq[n + 1]]

Verify == Verified("none", mk_values, mk_witness)

VerifyChangedValue ==
    \E c \in 1..Len(mk_values) : \E k \in 1..Len(mk_values[c]) :
        \E v \in FieldValues \ {mk_values[c][k]} :
            Verified("value", [mk_values EXCEPT ![c][k] = v], mk_witness)

VerifyChangedWitness ==
    /\ mk_pc = "decommitted"
    /\ \E k \in 1..Len(mk_witness) : \E h \in ForgedHashes \ {mk_witness[k]} :
        Verified("witness", mk_values, [mk_witness EXCEPT ![k] = h])

VerifyWitnessPopped ==
    /\ mk_witness # <<>>
    /\ Verified("witness_pop", mk_values, without(mk_witness, Len(mk_witness)))

VerifyWitnessPushed ==
    Verified("witness_push", mk_values, Append(mk_witness, Sha256Default))

VerifyValueRemoved ==
    \E c \in 1..Len(mk_values) : \E k \in 1..Len(mk_values[c]) :
        Verified("value_pop", [mk_values EXCEPT ![c] = without(@, k)], mk_witness)

VerifyValuePushed ==
    \E c \in 1..Len(mk_values) :
        Verified("value_push", [mk_values EXCEPT ![c] = Append(@, 0)], mk_witness)

NextMerkle ==
    \/ Commit
    \/ Decommit
    \/ Verify
    \/ VerifyChangedValue
    \/ VerifyChangedWitness
    \/ VerifyWitnessPopped
    \/ VerifyWitnessPushed
    \/ VerifyValueRemoved
    \/ VerifyValuePushed

SpecMerkle == InitMerkle /\ [][NextMerkle]_vars

C2_TamperIsRootMismatch ==
    (mk_pc = "verified" /\ mk_change \in {"value", "witness"}) =>
        mk_result = "RootMismatch"

C2_Witness ==
    /\ mk_pc = "verified" /\ mk_change = "witness" /\ mk_result = "RootMismatch"
    /\ Len(mk_witness) >= 2
    /\ mk_witness[1] = mk_verifier.root

\* C3: a witness one hash short gives WitnessTooShort, one hash long
\* WitnessTooLong, a column one value short ColumnValuesTooShort and one
\* value long ColumnValuesTooLong; never RootMismatch, never Ok.
C3_LengthErrors ==
    mk_pc = "verified" =>
        /\ mk_change = "witness_pop" => mk_result = "WitnessTooShort"
        /\ mk_change = "witness_push" => mk_result = "WitnessTooLong"
        /\ mk_change = "value_pop" => mk_result = "ColumnValuesTooShort"
        /\ mk_change = "value_push" => mk_result = "ColumnValuesTooLong"

C3_Witness ==
    /\ mk_pc = "verified" /\ mk_change = "value_pop"
    /\ mk_result = "ColumnValuesTooShort"
    /\ Len(mk_columns) = 2
    /\ Len(mk_witness) >= 1

\* ------------------------------------------------------------------ channel, grind

\* The sum of a sequence of numbers.
RECURSIVE seq_sum(_)
seq_sum(seq) == IF seq = <<>> THEN 0 ELSE Head(seq) + seq_sum(Tail(seq))

\* self.digest.0: the 32 bytes of a digest.  A raw digest is its bytes; a
\* computed one has the bytes the table gives its preimage.
digest_bytes(digest) ==
    IF Head(digest) >= 0 THEN digest
    ELSE sha_bytes[(seq_sum(digest) + 3 * Len(digest)) % NumCells]

\* u64::to_le_bytes, least significant byte first (n_bytes of them).
RECURSIVE to_le_bytes(_, _)
to_le_bytes(value, n_bytes) ==
    IF n_bytes = 0 THEN <<>>
    ELSE <<value % 256>> \o to_le_bytes(value \div 256, n_bytes - 1)

\* Sha256Channel::mix_nonce: the digest after the nonce is mixed in.
mix_nonce(digest, nonce) ==
    LET hash == to_le_bytes(nonce, 8) \o [i \in 1..24 |-> 0]
    IN concat_and_hash(hash, digest)

\* A plausible slip: the zero bits are counted from the least significant bit.
RECURSIVE u8_trailing_zeros(_)
u8_trailing_zeros(byte) ==
    IF byte = 0 THEN 8
    ELSE IF byte % 2 = 1 THEN 0
    ELSE 1 + u8_trailing_zeros(byte \div 2)

\* u8::leading_zeros.
RECURSIVE leading_zeros(_)
leading_zeros(byte) ==
    IF byte = 0 THEN 8
    ELSE IF byte >= 128 THEN 0
    ELSE 1 + leading_zeros(2 * byte)

\* The loop of trailing_zeros over the bytes in reverse, from byte idx (1-based).
RECURSIVE trailing_zeros_loop(_, _, _)
trailing_zeros_loop(bytes, idx, n_bits) ==
    IF idx = 0 THEN n_bits
    ELSE IF bytes[idx] = 0 THEN trailing_zeros_loop(bytes, idx - 1, n_bits + 8)
    ELSE n_bits + leading_zeros(bytes[idx])

\* Sha256Channel::trailing_zeros.
trailing_zeros(digest) == trailing_zeros_loop(digest_bytes(digest), 32, 0)

\* A plausible slip: the loop works on the caller's channel, not on a clone.
grind_iteration_no_clone(digest, nonce, pow_bits) ==
    LET mixed == mix_nonce(digest, nonce)
        found == trailing_zeros(mixed) >= pow_bits
    IN [digest |-> mixed, returned |-> found,
        nonce |-> IF found THEN nonce ELSE nonce + 1]

\* A plausible slip: the test is strict.
grind_iteration_strict(digest, nonce, pow_bits) ==
    LET mixed == mix_nonce(digest, nonce)
        found == trailing_zeros(mixed) > pow_bits
    IN [digest |-> digest, returned |-> found,
        nonce |-> IF found THEN nonce ELSE nonce + 1]

\* One pass of grind's loop: the clone is mixed and tested, the caller's
\* digest is not written; the nonce is returned or incremented.
grind_iteration(digest, nonce, pow_bits) ==
    LET cloned == digest
        mixed == mix_nonce(cloned, nonce)
        found == trailing_zeros(mixed) >= pow_bits
    IN [digest |-> digest, returned |-> found,
        nonce |-> IF found THEN nonce ELSE nonce + 1]

\* pow_bits asked for: none, and around the zero bits the table's digests have.
PowBits == {0, 3, 4, 16}

\* Digests the table holds: 0, 3, 15 and 256 trailing zero bits.
DigestImages ==
    {DigestImage(0, 255), DigestImage(0, 16), DigestImage(1, 1), DigestImage(32, 0)}

InitGrind ==
    /\ IdleHashNode /\ IdleLayer /\ IdleMerkle /\ IdleChannel /\ IdleQuotients
    /\ sha_bytes \in [0..(NumCells - 1) -> DigestImages]
    /\ ch_digest = Sha256Default /\ ch_mixes = 0
    /\ gr_pc = "idle" /\ gr_pow_bits = 0 /\ gr_nonce = 0
    /\ gr_entry = <<>> /\ gr_last = <<>>

\* grind(channel, pow_bits) is entered: let mut nonce = 0.
GrindCall ==
    /\ gr_pc \in {"idle", "returned"}
    /\ \E pow_bits \in PowBits : gr_pow_bits' = pow_bits
    /\ gr_pc' = "loop"
    /\ gr_nonce' = 0
    /\ gr_entry' = ch_digest
    /\ gr_last' = IF gr_pc = "returned" THEN <<gr_entry, gr_pow_bits, gr_nonce>> ELSE <<>>
    /\ UNCHANGED <<sha_bytes, ch_digest, ch_mixes, hn_vars, cl_vars, mk_vars, cn_vars, qt_vars>>

\* One pass of the loop.  The search is cut off past MaxNonce.
GrindIteration ==
    /\ gr_pc = "loop"
    /\ gr_nonce <= MaxNonce
    /\ LET step == grind_iteration(ch_digest, gr_nonce, gr_pow_bits)
       IN /\ ch_digest' = step.digest
          /\ gr_nonce' = step.nonce
          /\ gr_pc' = IF step.returned THEN "returned" ELSE "loop"
    /\ UNCHANGED <<sha_bytes, ch_mixes, gr_pow_bits, gr_entry, gr_last, hn_vars,
                   cl_vars, mk_vars, cn_vars, qt_vars>>

\* The caller mixes the nonce it was returned into its own channel.
MixNonce ==
    /\ gr_pc = "returned"
    /\ ch_mixes < MaxMixes
    /\ ch_mixes' = ch_mixes + 1
    /\ ch_digest' = mix_nonce(ch_digest, gr_nonce)
    /\ gr_pc' = "idle"
    /\ UNCHANGED <<sha_bytes, gr_pow_bits, gr_nonce, gr_entry, gr_last, hn_vars,
                   cl_vars, mk_vars, cn_vars, qt_vars>>

NextGrind == GrindCall \/ GrindIteration \/ MixNonce

SpecGrind == InitGrind /\ [][NextGrind]_vars

\* The 32 bytes of the digest a clone of the channel has once nonce n is
\* mixed in: H(n as 8 little-endian bytes, 24 zero bytes, digest).
NonceDigestBytes(digest, n) ==
    LET block == [i \in 1..32 |->
                    IF i = 1 THEN n % 256 ELSE IF i = 2 THEN n \div 256 ELSE 0]
    IN digest_bytes(<<-1>> \o block \o digest \o <<-2>>)

\* The zero bits at the end of 32 bytes: eight per zero byte from the last
\* byte back, then the zero bits on top of the first byte that is not zero.
ZeroBits(bytes) ==
    LET nonzero == {i \in 1..32 : bytes[i] # 0} IN
    IF nonzero = {} THEN 256
    ELSE LET last == CHOOSE i \in nonzero : \A j \in nonzero : j <= i
             top == CHOOSE k \in 0..7 :
                        2 ^ (7 - k) <= bytes[last] /\ bytes[last] < 2 ^ (8 - k)
         IN 8 * (32 - last) + top

\* C4: grind returns the smallest nonce whose mix into a clone of the
\* channel leaves at least pow_bits trailing zero bits (every smaller nonce
\* fails); the caller's digest is what it was when grind was entered; and a
\* second call on the same channel with the same pow_bits returns the same.
C4_GrindSmallestNonce ==
    gr_pc = "returned" =>
        /\ ZeroBits(NonceDigestBytes(gr_entry, gr_nonce)) >= gr_pow_bits
        /\ \A n \in 0..(gr_nonce - 1) :
              ZeroBits(NonceDigestBytes(gr_entry, n)) < gr_pow_bits
        /\ ch_digest = gr_entry
        /\ (gr_last # <<>> /\ gr_last[1] = gr_entry /\ gr_last[2] = gr_pow_bits)
              => gr_nonce = gr_last[3]

C4_Witness ==
    /\ gr_pc = "returned"
    /\ gr_nonce >= 2
    /\ gr_pow_bits >= 4
    /\ ch_mixes = 1
    /\ gr_last = <<gr_entry, gr_pow_bits, gr_nonce>>

\* ------------------------------------------------------------------ channel: mix, draw

\* The base field's modulus, (1 << 31) - 1.
M31_P == 2147483647

\* core::utils::sha256_qm31: the bytes mix_felts absorbs for one secure field
\* element <<a, b, c, d>>.  Its body is not among the sources; it is taken as
\* an injective encoding of the four coordinates.
sha256_qm31(felt) == <<-4>> \o felt

\* A plausible slip: the whole slice is absorbed at once.
RECURSIVE mix_felts_at_once_bytes(_)
mix_felts_at_once_bytes(felts) ==
    IF felts = <<>> THEN <<>>
    ELSE sha256_qm31(Head(felts)) \o mix_felts_at_once_bytes(Tail(felts))

mix_felts_at_once(digest, felts) ==
    Sha256Finalize(Sha256Update(
        Sha256Update(Sha256New, mix_felts_at_once_bytes(felts)), digest))

\* A plausible slip: the digest is absorbed before the element.
RECURSIVE mix_felts_digest_first(_, _)
mix_felts_digest_first(digest, felts) ==
    IF felts = <<>> THEN digest
    ELSE mix_felts_digest_first(
            Sha256Finalize(Sha256Update(
                Sha256Update(Sha256New, digest), sha256_qm31(Head(felts)))),
            Tail(felts))

\* Sha256Channel::mix_felts: the digest after the felts are absorbed, one
\* hasher per felt, the felt's bytes before the digest.
RECURSIVE mix_felts(_, _)
mix_felts(digest, felts) ==
    IF felts = <<>> THEN digest
    ELSE mix_felts(
            Sha256Finalize(Sha256Update(
                Sha256Update(Sha256New, sha256_qm31(Head(felts))), digest)),
            Tail(felts))

\* A plausible slip: the remainder is taken by one less than the modulus.
extract_common_mod_p_minus_1(hash) ==
    LET res == hash[1] + 256 * hash[2] + 65536 * hash[3]
               + 16777216 * (hash[4] % 128)
    IN res % (M31_P - 1)

\* A plausible slip: the four bytes are read most significant first.
extract_common_big_endian(hash) ==
    LET res == hash[4] + 256 * hash[3] + 65536 * hash[2]
               + 16777216 * (hash[1] % 128)
    IN res % M31_P

\* Sha256Channel::extract_common: the first four bytes as a little-endian
\* u32, & 0x7fffffff (bit 7 of the fourth byte is cleared), % ((1 << 31) - 1).
extract_common(hash) ==
    LET res == hash[1] + 256 * hash[2] + 65536 * hash[3]
               + 16777216 * (hash[4] % 128)
    IN res % M31_P

\* &extract[k..]: the slice from 0-based offset k.
slice_from(bytes, k) == SubSeq(bytes, k + 1, Len(bytes))

\* A plausible slip: the digest is not ratcheted.
draw_felt_no_ratchet(digest) ==
    LET extract == Sha256Finalize(Sha256Update(Sha256Update(Sha256New, digest), <<0>>))
        bytes == digest_bytes(extract)
    IN [digest |-> digest, extract |-> extract,
        felt |-> <<extract_common(bytes), extract_common(slice_from(bytes, 4)),
                   extract_common(slice_from(bytes, 8)),
                   extract_common(slice_from(bytes, 12))>>]

\* A plausible slip: the windows are one byte apart.
draw_felt_overlapping(digest) ==
    LET extract == Sha256Finalize(Sha256Update(Sha256Update(Sha256New, digest), <<0>>))
        bytes == digest_bytes(extract)
    IN [digest |-> Sha256Finalize(Sha256Update(Sha256New, digest)),
        extract |-> extract,
        felt |-> <<extract_common(bytes), extract_common(slice_from(bytes, 1)),
                   extract_common(slice_from(bytes, 2)),
                   extract_common(slice_from(bytes, 3))>>]

\* Sha256Channel::draw_felt: the extraction hash of the digest and a zero
\* byte, the digest replaced by its own hash, and the element read from the
\* extraction hash at offsets 0, 4, 8 and 12.
draw_felt(digest) ==
    LET extract == Sha256Finalize(Sha256Update(Sha256Update(Sha256New, digest), <<0>>))
        bytes == digest_bytes(extract)
    IN [digest |-> Sha256Finalize(Sha256Update(Sha256New, digest)),
        extract |-> extract,
        felt |-> <<extract_common(bytes), extract_common(slice_from(bytes, 4)),
                   extract_common(slice_from(bytes, 8)),
                   extract_common(slice_from(bytes, 12))>>]

\* Sha256Channel::draw_felts: n_felts calls of draw_felt, the results pushed
\* in order.
RECURSIVE draw_felts_loop(_, _, _, _)
draw_felts_loop(digest, n_felts, res, extracts) ==
    IF n_felts = 0 THEN [digest |-> digest, res |-> res, extracts |-> extracts]
    ELSE LET d == draw_felt(digest)
         IN draw_felts_loop(d.digest, n_felts - 1, Append(res, d.felt),
                            Append(extracts, d.extract))

draw_felts(digest, n_felts) == draw_felts_loop(digest, n_felts, <<>>, <<>>)

\* Sha256Channel::draw_random_bytes: the extraction hash's bytes, and the
\* digest replaced by its own hash.
draw_random_bytes(digest) ==
    LET extract == Sha256Finalize(Sha256Update(Sha256Update(Sha256New, digest), <<0>>))
    IN [digest |-> Sha256Finalize(Sha256Update(Sha256New, digest)),
        extract |-> extract,
        bytes |-> digest_bytes(extract)]

\* Four-byte windows of an extraction hash: the modulus itself, one less,
\* a value under the top bit, and four different bytes.
WindowP == <<255, 255, 255, 127>>
WindowPMinus1 == <<254, 255, 255, 127>>
WindowTopBit == <<5, 0, 0, 128>>
WindowBytes == <<1, 2, 3, 4>>

\* A 32-byte digest: sixteen bytes of windows, then the upper half of
\* DigestImage(zero_bytes, top).
ChannelImage(windows, zero_bytes, top) ==
    [i \in 1..32 |-> IF i <= 16 THEN windows[i] ELSE DigestImage(zero_bytes, top)[i]]

\* The digests the table holds in the channel checks.
ChannelImages ==
    << ChannelImage(WindowP \o WindowPMinus1 \o WindowTopBit \o WindowBytes, 0, 255),
       ChannelImage(WindowBytes \o WindowTopBit \o WindowPMinus1 \o WindowP, 1, 16),
       DigestImage(32, 0),
       ChannelImage([i \in 1..16 |-> 0], 15, 1),
       ChannelImage(WindowPMinus1 \o WindowBytes \o WindowP \o WindowTopBit, 2, 128) >>

\* The felts mixed: the two of test_mix_felts.
ChannelFelts == {<<1923782, 0, 0, 0>>, <<1923783, 0, 0, 0>>}

InitChannel ==
    /\ IdleHashNode /\ IdleLayer /\ IdleMerkle /\ IdleQuotients
    /\ sha_bytes \in {[c \in 0..(NumCells - 1) |->
                          ChannelImages[((c + s) % Len(ChannelImages)) + 1]] :
                      s \in 0..(Len(ChannelImages) - 1)}
    /\ ch_digest = Sha256Default /\ ch_mixes = 0
    /\ gr_pc = "idle" /\ gr_pow_bits = 0 /\ gr_nonce = 0
    /\ gr_entry = <<>> /\ gr_last = <<>>
    /\ cn_ops = 0 /\ cn_kind = "" /\ cn_prev = <<>> /\ cn_arg = <<>> /\ cn_out = <<>>
    /\ cn_class = "" /\ cn_base = <<>> /\ cn_run = <<>> /\ cn_extracts = <<>>

\* What a call leaves in the record of the run it belongs to.
RunAfter(class, items, extracts) ==
    /\ cn_class' = class
    /\ cn_base' = IF cn_class = class THEN cn_base ELSE ch_digest
    /\ cn_run' = (IF cn_class = class THEN cn_run ELSE <<>>) \o items
    /\ cn_extracts' = (IF cn_class = class THEN cn_extracts ELSE <<>>) \o extracts

\* channel.mix_felts(felts).
MixFelts ==
    /\ cn_ops < MaxOps
    /\ \E felts \in SeqsOf(ChannelFelts, 0, MaxFelts) :
          /\ ch_digest' = mix_felts(ch_digest, felts)
          /\ cn_arg' = felts
          /\ RunAfter("mix", felts, <<>>)
    /\ cn_ops' = cn_ops + 1 /\ cn_kind' = "mix_felts" /\ cn_prev' = ch_digest
    /\ cn_out' = <<>>
    /\ UNCHANGED <<sha_bytes, ch_mixes, gr_pc, gr_pow_bits, gr_nonce, gr_entry, gr_last,
                   hn_vars, cl_vars, mk_vars, qt_vars>>

\* channel.draw_felt().
DrawFelt ==
    /\ cn_ops < MaxOps
    /\ LET d == draw_felt(ch_digest)
       IN /\ ch_digest' = d.digest
          /\ cn_out' = <<d.felt>>
          /\ RunAfter("draw", <<d.felt>>, <<d.extract>>)
    /\ cn_ops' = cn_ops + 1 /\ cn_kind' = "draw_felt" /\ cn_prev' = ch_digest
    /\ cn_arg' = <<>>
    /\ UNCHANGED <<sha_bytes, ch_mixes, gr_pc, gr_pow_bits, gr_nonce, gr_entry, gr_last,
                   hn_vars, cl_vars, mk_vars, qt_vars>>

\* channel.draw_felts(n_felts).
DrawFelts ==
    /\ cn_ops < MaxOps
    /\ \E n_felts \in 0..MaxFelts :
          LET d == draw_felts(ch_digest, n_felts)
          IN /\ ch_digest' = d.digest
             /\ cn_out' = d.res
             /\ RunAfter("draw", d.res, d.extracts)
    /\ cn_ops' = cn_ops + 1 /\ cn_kind' = "draw_felts" /\ cn_prev' = ch_digest
    /\ cn_arg' = <<>>
    /\ UNCHANGED <<sha_bytes, ch_mixes, gr_pc, gr_pow_bits, gr_nonce, gr_entry, gr_last,
                   hn_vars, cl_vars, mk_vars, qt_vars>>

\* channel.draw_random_bytes().
DrawRandomBytes ==
    /\ cn_ops < MaxOps
    /\ LET d == draw_random_bytes(ch_digest)
       IN /\ ch_digest' = d.digest
          /\ cn_out' = d.bytes
          /\ RunAfter("draw", <<d.bytes>>, <<d.extract>>)
    /\ cn_ops' = cn_ops + 1 /\ cn_kind' = "draw_random_bytes" /\ cn_prev' = ch_digest
    /\ cn_arg' = <<>>
    /\ UNCHANGED <<sha_bytes, ch_mixes, gr_pc, gr_pow_bits, gr_nonce, gr_entry, gr_last,
                   hn_vars, cl_vars, mk_vars, qt_vars>>

\* channel.trailing_zeros(): the digest is read, not written.
TrailingZeros ==
    /\ cn_ops < MaxOps
    /\ cn_out' = <<trailing_zeros(ch_digest)>>
    /\ cn_ops' = cn_ops + 1 /\ cn_kind' = "trailing_zeros" /\ cn_prev' = ch_digest
    /\ cn_arg' = <<>>
    /\ UNCHANGED <<cn_class, cn_base, cn_run, cn_extracts, gr_vars,
                   hn_vars, cl_vars, mk_vars, qt_vars>>

NextChannel == MixFelts \/ DrawFelt \/ DrawFelts \/ DrawRandomBytes \/ TrailingZeros

SpecChannel == InitChannel /\ [][NextChannel]_vars

\* H(serialize(e) || digest), element after element in slice order.
RECURSIVE Absorbed(_, _)
Absorbed(digest, felts) ==
    IF felts = <<>> THEN digest
    ELSE LET n == Len(felts)
         IN <<-1>> \o sha256_qm31(felts[n])
                \o Absorbed(digest, SubSeq(felts, 1, n - 1)) \o <<-2>>

\* C11: mix_felts absorbs the elements one at a time in slice order, each by
\* digest' = H(serialize(e) || digest); mixing a then b leaves the digest
\* that mixing a ++ b leaves; an empty slice leaves the digest unchanged; and
\* two different elements mixed in the two orders leave different digests.
C11_MixFelts ==
    cn_kind = "mix_felts" =>
        /\ ch_digest = Absorbed(cn_prev, cn_arg)
        /\ ch_digest = mix_felts(cn_base, cn_run)
        /\ cn_arg = <<>> => ch_digest = cn_prev
        /\ (Len(cn_arg) = 2 /\ cn_arg[1] # cn_arg[2]) =>
              ch_digest # mix_felts(cn_prev, <<cn_arg[2], cn_arg[1]>>)

C11_Witness ==
    /\ cn_kind = "mix_felts" /\ Len(cn_arg) = 2 /\ cn_arg[1] # cn_arg[2]
    /\ Len(cn_run) > Len(cn_arg)
    /\ cn_base # Sha256Default

\* H applied k times.
RECURSIVE Ratchet(_, _)
Ratchet(digest, k) ==
    IF k = 0 THEN digest ELSE <<-1>> \o Ratchet(digest, k - 1) \o <<-2>>

\* H(digest || 0x00).
ExtractionHash(digest) == <<-1>> \o digest \o <<0, -2>>

\* The element read from the bytes of an extraction hash.
FeltOf(bytes) ==
    <<extract_common(bytes), extract_common(slice_from(bytes, 4)),
      extract_common(slice_from(bytes, 8)), extract_common(slice_from(bytes, 12))>>

\* C12: after k draws with no mix in between the digest is H applied k
\* times to the digest before the first; the i-th draw reads the extraction
\* hash H(digest || 0x00) of the digest before it and returns its bytes or
\* the element read from them; no two draws read the same extraction hash;
\* and the elements of consecutive draw_felt/draw_felts calls are those of
\* one draw_felts of the total count.
C12_DrawRatchet ==
    cn_class = "draw" =>
        LET k == Len(cn_run) IN
        /\ ch_digest = Ratchet(cn_base, k)
        /\ Len(cn_extracts) = k
        /\ \A i \in 1..k :
              /\ cn_extracts[i] = ExtractionHash(Ratchet(cn_base, i - 1))
              /\ cn_run[i] = IF Len(cn_run[i]) = 4
                             THEN FeltOf(digest_bytes(cn_extracts[i]))
                             ELSE digest_bytes(cn_extracts[i])
        /\ \A i, j \in 1..k : i # j => cn_extracts[i] # cn_extracts[j]
        /\ (\A i \in 1..k : Len(cn_run[i]) = 4) =>
              cn_run = draw_felts(cn_base, k).res

C12_Witness ==
    /\ cn_class = "draw" /\ cn_kind = "draw_felts" /\ Len(cn_out) = 2
    /\ Len(cn_run) >= 3
    /\ \A i \in 1..Len(cn_run) : Len(cn_run[i]) = 4
    /\ cn_base # Sha256Default

\* The four bytes at a 0-based offset, little-endian, the top bit cleared.
WindowValue(bytes, offset) ==
    bytes[offset + 1] + 256 * bytes[offset + 2] + 65536 * bytes[offset + 3]
        + 16777216 * (bytes[offset + 4] % 128)

\* C13 as stated: each coordinate is its window's value modulo the field
\* size minus one.
C13_ReducedModuloFieldSizeMinusOne ==
    cn_kind = "draw_felt" =>
        LET bytes == digest_bytes(ExtractionHash(cn_prev)) IN
        \A j \in 0..3 :
            cn_out[1][j + 1] = WindowValue(bytes, 4 * j) % (M31_P - 1)

\* C13: each of the four coordinates of a drawn element is read from its own
\* window of the extraction hash, at byte offsets 0, 4, 8 and 12,
\* little-endian with the top bit cleared, and reduced modulo the field size
\* 2^31 - 1.
C13_ReducedModuloFieldSize ==
    cn_kind = "draw_felt" =>
        LET bytes == digest_bytes(ExtractionHash(cn_prev)) IN
        \A j \in 0..3 :
            cn_out[1][j + 1] = WindowValue(bytes, 4 * j) % M31_P

C13_Witness ==
    /\ cn_kind = "draw_felt"
    /\ cn_out[1] = <<0, M31_P - 1, 5, 67305985>>

\* The zero bits of a non-zero byte above its most significant one bit.
MsbZeroBits(byte) == CHOOSE z \in 0..7 : byte * 2^z \in 128..255

\* C14: trailing_zeros counts 8 for every zero byte from index 31 down, adds
\* at the first non-zero byte its zero bits counted from the most
\* significant bit, and stops; the result is in 0..256 and is 256 exactly
\* for the all-zero digest.
C14_TrailingZerosRule ==
    cn_kind = "trailing_zeros" =>
        LET bytes == digest_bytes(cn_prev)
            n_bits == cn_out[1]
            non_zero == {i \in 1..32 : bytes[i] # 0}
        IN /\ n_bits \in 0..256
           /\ n_bits = 256 <=> non_zero = {}
           /\ non_zero # {} =>
                 LET last == CHOOSE i \in non_zero : \A j \in non_zero : j <= i
                 IN n_bits = 8 * (32 - last) + MsbZeroBits(bytes[last])

C14_Witness ==
    /\ cn_kind = "trailing_zeros"
    /\ cn_out = <<127>>
    /\ cn_ops > 1

\* ------------------------------------------------------------------ field tower

\* M31: the integers modulo M31_P.  Sums and products are formed without
\* leaving 0..M31_P.
m31_add(a, b) == IF a >= M31_P - b THEN a - (M31_P - b) ELSE a + b

m31_neg(a) == IF a = 0 THEN 0 ELSE M31_P - a

m31_sub(a, b) == m31_add(a, m31_neg(b))

\* x * 2^k modulo M31_P for x in 0..M31_P: 2^31 = 1, so the 31 bits rotate.
m31_rotate(x, k) == (x % 2^(31 - k)) * 2^k + x \div 2^(31 - k)

\* a * b modulo M31_P, formed on 15-bit limbs so that no intermediate value
\* leaves 31 bits.
m31_mul(a, b) ==
    LET a0 == a % 32768
        a1 == (a \div 32768) % 32768
        a2 == a \div 1073741824
        b0 == b % 32768
        b1 == (b \div 32768) % 32768
        b2 == b \div 1073741824
        c0 == (a0 * b0) % M31_P
        c1 == (a0 * b1 + a1 * b0) % M31_P
        c2 == m31_add((a1 * b1) % M31_P, a0 * b2 + a2 * b0)
        c3 == a1 * b2 + a2 * b1
        c4 == a2 * b2
    IN m31_add(c0,
         m31_add(m31_rotate(c1, 15) % M31_P,
           m31_add(m31_rotate(c2, 30) % M31_P,
             m31_add(m31_rotate(c3, 14) % M31_P, m31_rotate(c4, 29)))))

\* Euclid's algorithm on (M31_P, a): the coefficient t with a * t = 1.
RECURSIVE m31_inverse_loop(_, _, _, _)
m31_inverse_loop(r0, r1, t0, t1) ==
    IF r1 = 0 THEN t0
    ELSE LET q == r0 \div r1
         IN m31_inverse_loop(r1, r0 - q * r1, t1, t0 - q * t1)

\* FieldExpOps::inverse: the b with a * b = 1 (a is not 0).
m31_inverse(a) ==
    LET t == m31_inverse_loop(M31_P, a, 0, 1)
    IN IF t < 0 THEN t + M31_P ELSE t

\* CM31(a, b): a + b*i with i^2 = -1.
cm31_zero == <<0, 0>>

cm31_from_m31(a) == <<a, 0>>

cm31_add(x, y) == <<m31_add(x[1], y[1]), m31_add(x[2], y[2])>>

cm31_sub(x, y) == <<m31_sub(x[1], y[1]), m31_sub(x[2], y[2])>>

cm31_mul(x, y) ==
    <<m31_sub(m31_mul(x[1], y[1]), m31_mul(x[2], y[2])),
      m31_add(m31_mul(x[1], y[2]), m31_mul(x[2], y[1]))>>

\* CM31 * M31.
cm31_mul_m31(x, a) == <<m31_mul(x[1], a), m31_mul(x[2], a)>>

\* (a + b*i)^-1 = (a - b*i) / (a^2 + b^2).
cm31_inverse(x) ==
    LET norm_inverse == m31_inverse(m31_add(m31_mul(x[1], x[1]), m31_mul(x[2], x[2])))
    IN <<m31_mul(x[1], norm_inverse), m31_mul(m31_neg(x[2]), norm_inverse)>>

\* QM31(a, b): a + b*u with a, b in CM31 and u^2 = R = 2 + i.
qm31_R == <<2, 1>>

qm31_zero == <<cm31_zero, cm31_zero>>

qm31_one == <<cm31_from_m31(1), cm31_zero>>

\* SecureField::from(CM31), QM31::from(CM31).
qm31_from_cm31(x) == <<x, cm31_zero>>

qm31_add(x, y) == <<cm31_add(x[1], y[1]), cm31_add(x[2], y[2])>>

qm31_sub(x, y) == <<cm31_sub(x[1], y[1]), cm31_sub(x[2], y[2])>>

qm31_mul(x, y) ==
    <<cm31_add(cm31_mul(x[1], y[1]), cm31_mul(qm31_R, cm31_mul(x[2], y[2]))),
      cm31_add(cm31_mul(x[1], y[2]), cm31_mul(x[2], y[1]))>>

\* FieldExpOps::pow by squaring.
RECURSIVE qm31_pow(_, _)
qm31_pow(x, exp) ==
    IF exp = 0 THEN qm31_one
    ELSE LET half == qm31_pow(qm31_mul(x, x), exp \div 2)
         IN IF exp % 2 = 1 THEN qm31_mul(half, x) ELSE half

\* (a + b*u)^-1 = (a - b*u) / (a^2 - R*b^2).
qm31_inverse(x) ==
    LET denom == cm31_sub(cm31_mul(x[1], x[1]),
                          cm31_mul(qm31_R, cm31_mul(x[2], x[2])))
        denom_inverse == cm31_inverse(denom)
    IN <<cm31_mul(x[1], denom_inverse),
         cm31_mul(cm31_sub(cm31_zero, x[2]), denom_inverse)>>

\* ComplexOf::get_real, get_imag: the two CM31 halves of a secure field element.
get_real(x) == x[1]

get_imag(x) == x[2]

\* ------------------------------------------------------------------ circle domain

\* CirclePoint<F> is <<x, y>>.  The group law of the circle over M31.
circle_add(p, q) ==
    <<m31_sub(m31_mul(p[1], q[1]), m31_mul(p[2], q[2])),
      m31_add(m31_mul(p[1], q[2]), m31_mul(p[2], q[1]))>>

RECURSIVE circle_mul(_, _)
circle_mul(p, n) == IF n = 0 THEN <<1, 0>> ELSE circle_add(p, circle_mul(p, n - 1))

\* -p: the conjugate point.
circle_neg(p) == <<p[1], m31_neg(p[2])>>

\* CirclePointIndex::subgroup_gen(n).to_point(), n = 0..5: the powers
\* M31_CIRCLE_GEN^(2^(31 - n)) of the generator (2, 1268011823).
subgroup_gen(n) ==
    << <<1, 0>>, <<2147483646, 0>>, <<0, 2147483646>>, <<32768, 2147450879>>,
       <<590768354, 978592373>>, <<1179735656, 1241207368>> >>[n + 1]

\* CanonicCoset::new(log_size).circle_domain().at(i): the half coset
\* subgroup_gen(log_size + 1) + <subgroup_gen(log_size - 1)>, then its
\* conjugates.
CircleDomain_at(log_size, i) ==
    LET half_size == 2^(log_size - 1)
        half_coset_at(k) ==
            circle_add(subgroup_gen(log_size + 1),
                       circle_mul(subgroup_gen(log_size - 1), k))
    IN IF i < half_size THEN half_coset_at(i)
       ELSE circle_neg(half_coset_at(i - half_size))

\* domain.size().
CircleDomain_size(log_size) == 2^log_size

\* core::utils::bit_reverse_index(i, log_size): the log_size low bits of i,
\* reversed.
RECURSIVE bit_reverse_index(_, _)
bit_reverse_index(i, log_size) ==
    IF log_size = 0 THEN 0
    ELSE (i % 2) * 2^(log_size - 1) + bit_reverse_index(i \div 2, log_size - 1)

\* core::utils::bit_reverse(v): v[i] and v[bit_reverse_index(i)] change places.
bit_reverse(v, log_size) ==
    [i \in 1..Len(v) |-> v[bit_reverse_index(i - 1, log_size) + 1]]

\* ------------------------------------------------------------------ quotients

\* complex_conjugate_line_coeffs_normalized(sample): the (a, b) of the line
\* a * y + b through (point.y, value) and their conjugates,
\* a = imag(value) / imag(point.y), b = real(value) - a * real(point.y).
complex_conjugate_line_coeffs_normalized(sample) ==
    LET a == cm31_mul(get_imag(sample.value), cm31_inverse(get_imag(sample.point.y)))
        b == cm31_sub(get_real(sample.value), cm31_mul(a, get_real(sample.point.y)))
    IN <<a, b>>

\* column_line_coeffs: per batch and column the coefficients of the sample's
\* line.  The closure's alpha is multiplied by random_coeff after every
\* column and is read by nothing.
column_line_coeffs(sample_batches, random_coeff) ==
    [k \in 1..Len(sample_batches) |->
        LET sample_batch == sample_batches[k] IN
        [i \in 1..Len(sample_batch.columns_and_values) |->
            complex_conjugate_line_coeffs_normalized(
                [point |-> sample_batch.point,
                 value |-> sample_batch.columns_and_values[i][2]])]]

\* A plausible slip: the exponent is one less than the number of columns.
batch_random_coeffs_one_less(sample_batches, random_coeff) ==
    [k \in 1..Len(sample_batches) |->
        qm31_pow(random_coeff, Len(sample_batches[k].columns_and_values) - 1)]

\* batch_random_coeffs: random_coeff^(number of columns in the batch).
batch_random_coeffs(sample_batches, random_coeff) ==
    [k \in 1..Len(sample_batches) |->
        qm31_pow(random_coeff, Len(sample_batches[k].columns_and_values))]

\* denominator_inverses: per batch the inverses of the denominators at
\* domain.at(0), domain.at(1), ..., then bit-reversed.
denominator_inverses(sample_batches, log_size) ==
    [k \in 1..Len(sample_batches) |->
        LET point == sample_batches[k].point
            d == cm31_mul(get_imag(point.x), cm31_inverse(get_imag(point.y)))
            cross_term == cm31_sub(cm31_mul(d, get_real(point.y)), get_real(point.x))
            denominator(row) ==
                LET domain_point == CircleDomain_at(log_size, row)
                IN cm31_add(cm31_sub(cm31_from_m31(domain_point[1]),
                                     cm31_mul(cm31_from_m31(domain_point[2]), d)),
                            cross_term)
        IN bit_reverse([i \in 1..CircleDomain_size(log_size) |->
                           cm31_inverse(denominator(i - 1))], log_size)]

\* column[row] - (a * domain_point.y + b): one numerator term, in CM31.
numerator_term(sample_batch, line_coeffs, columns, row, domain_point, i) ==
    LET column_index == sample_batch.columns_and_values[i][1]
        a == line_coeffs[i][1]
        b == line_coeffs[i][2]
        value == columns[column_index + 1][row + 1]
        linear_term == cm31_add(cm31_mul_m31(a, domain_point[2]), b)
    IN cm31_sub(cm31_from_m31(value), linear_term)

\* The loop of the branch for batches of other than one column, from column
\* i on: numerator *= random_coeff; numerator += value - linear_term.
RECURSIVE multi_column_numerator(_, _, _, _, _, _, _, _)
multi_column_numerator(sample_batch, line_coeffs, columns, row, domain_point, random_coeff, i, numerator) ==
    IF i > Len(sample_batch.columns_and_values) THEN numerator
    ELSE multi_column_numerator(sample_batch, line_coeffs, columns, row,
            domain_point, random_coeff, i + 1,
            qm31_add(qm31_mul(numerator, random_coeff),
                     qm31_from_cm31(numerator_term(sample_batch, line_coeffs, columns,
                                                   row, domain_point, i))))

\* The branch for batches of other than one column: the numerator and what
\* is added to the row accumulator.
multi_column_quotient(sample_batch, line_coeffs, den_inverses, columns, row, domain_point, random_coeff) ==
    LET numerator == multi_column_numerator(sample_batch, line_coeffs, columns, row,
                                            domain_point, random_coeff, 1, qm31_zero)
    IN [numerator |-> numerator,
        quotient |-> qm31_mul(numerator, qm31_from_cm31(den_inverses[row + 1]))]

\* A plausible slip: the denominator inverse is left out.
single_column_quotient_no_inverse(sample_batch, line_coeffs, den_inverses, columns, row, domain_point, random_coeff) ==
    LET numerator == numerator_term(sample_batch, line_coeffs, columns, row,
                                    domain_point, 1)
    IN [numerator |-> qm31_from_cm31(numerator), quotient |-> qm31_from_cm31(numerator)]

\* A plausible slip: the quotient is embedded in the other half of the
\* secure field.
single_column_quotient_other_half(sample_batch, line_coeffs, den_inverses, columns, row, domain_point, random_coeff) ==
    LET numerator == cm31_mul(numerator_term(sample_batch, line_coeffs, columns, row,
                                             domain_point, 1),
                              den_inverses[row + 1])
    IN [numerator |-> qm31_from_cm31(numerator), quotient |-> <<cm31_zero, numerator>>]

\* The branch for batches of exactly one column: the numerator, formed in
\* CM31 with the denominator inverse, and its embedding in the secure field.
single_column_quotient(sample_batch, line_coeffs, den_inverses, columns, row, domain_point, random_coeff) ==
    LET numerator == cm31_mul(numerator_term(sample_batch, line_coeffs, columns, row,
                                             domain_point, 1),
                              den_inverses[row + 1])
    IN [numerator |-> qm31_from_cm31(numerator), quotient |-> qm31_from_cm31(numerator)]

\* The body of the loop over the batches: the branch the batch takes.
batch_quotient(sample_batch, line_coeffs, den_inverses, columns, row, domain_point, random_coeff) ==
    IF Len(sample_batch.columns_and_values) # 1
    THEN multi_column_quotient(sample_batch, line_coeffs, den_inverses, columns,
                               row, domain_point, random_coeff)
    ELSE single_column_quotient(sample_batch, line_coeffs, den_inverses, columns,
                                row, domain_point, random_coeff)

\* A plausible slip: the accumulator is not multiplied by the batch's
\* coefficient.
RECURSIVE accumulate_row_quotients_unweighted(_, _, _, _, _, _, _, _, _, _)
accumulate_row_quotients_unweighted(sample_batches, columns, line_coeffs, batch_coeffs, den_inverses, row, domain_point, random_coeff, k, row_accumulator) ==
    IF k > Len(sample_batches) THEN row_accumulator
    ELSE accumulate_row_quotients_unweighted(sample_batches, columns, line_coeffs,
            batch_coeffs, den_inverses, row, domain_point, random_coeff, k + 1,
            qm31_add(row_accumulator,
                     batch_quotient(sample_batches[k], line_coeffs[k],
                                    den_inverses[k], columns, row, domain_point,
                                    random_coeff).quotient))

\* accumulate_row_quotients, from batch k on:
\* row_accumulator = row_accumulator * batch_coeff + the batch's quotient.
RECURSIVE accumulate_row_quotients_loop(_, _, _, _, _, _, _, _, _, _)
accumulate_row_quotients_loop(sample_batches, columns, line_coeffs, batch_coeffs, den_inverses, row, domain_point, random_coeff, k, row_accumulator) ==
    IF k > Len(sample_batches) THEN row_accumulator
    ELSE accumulate_row_quotients_loop(sample_batches, columns, line_coeffs,
            batch_coeffs, den_inverses, row, domain_point, random_coeff, k + 1,
            qm31_add(qm31_mul(row_accumulator, batch_coeffs[k]),
                     batch_quotient(sample_batches[k], line_coeffs[k],
                                    den_inverses[k], columns, row, domain_point,
                                    random_coeff).quotient))

\* accumulate_row_quotients.
accumulate_row_quotients(sample_batches, columns, line_coeffs, batch_coeffs, den_inverses, row, domain_point, random_coeff) ==
    accumulate_row_quotients_loop(sample_batches, columns, line_coeffs, batch_coeffs,
        den_inverses, row, domain_point, random_coeff, 1, qm31_zero)

\* The point of the circle over the secure field with parameter t:
\* ((1 - t^2) / (1 + t^2), 2t / (1 + t^2)).
SamplePoint(t) ==
    LET t2 == qm31_mul(t, t)
        inv == qm31_inverse(qm31_add(qm31_one, t2))
    IN [x |-> qm31_mul(qm31_sub(qm31_one, t2), inv),
        y |-> qm31_mul(qm31_add(t, t), inv)]

\* Sample points off the domain: the parameters u, 1 + 2u and i + (1 + i)u.
SamplePoints ==
    << SamplePoint(<<<<0, 0>>, <<1, 0>>>>),
       SamplePoint(<<<<1, 0>>, <<2, 0>>>>),
       SamplePoint(<<<<0, 1>>, <<1, 1>>>>) >>

\* random_coeff: the test's qm31!(1, 2, 3, 4), and u.
RandomCoeffs == {<<<<1, 2>>, <<3, 4>>>>, <<<<0, 0>>, <<1, 0>>>>}

\* The value of column c (0-based) at a row.
EvalValue(c, row, seed) ==
    m31_sub(m31_mul(c + 2, row + 1), m31_mul(seed, row + c))

\* The value claimed for the i-th column of batch k.
SampleValue(k, i, seed) == <<<<k, m31_neg(i)>>, <<seed + i, k + 1>>>>

\* The batches of the given numbers of columns.
SampleBatches(sizes, seed) ==
    [k \in 1..Len(sizes) |->
        [point |-> SamplePoints[((k + seed) % Len(SamplePoints)) + 1],
         columns_and_values |->
            [i \in 1..sizes[k] |-> <<(i + k) % MaxBatchCols, SampleValue(k, i, seed)>>]]]

InitQuotients ==
    /\ IdleHashNode /\ IdleLayer /\ IdleMerkle /\ IdleGrind /\ IdleChannel
    /\ qt_pc = "start"
    /\ qt_log_size \in 1..MaxDomainLog
    /\ qt_random_coeff \in RandomCoeffs
    /\ \E seed \in 0..MaxSeed :
          /\ qt_columns = [c \in 1..MaxBatchCols |->
                              [r \in 1..CircleDomain_size(qt_log_size) |->
                                  EvalValue(c - 1, r - 1, seed)]]
          /\ \E sizes \in SeqsOf(1..MaxBatchCols, 1, MaxBatches) :
                qt_sample_batches = SampleBatches(sizes, seed)
    /\ qt_line_coeffs = <<>> /\ qt_batch_coeffs = <<>> /\ qt_den_inv = <<>>
    /\ qt_row = 0 /\ qt_values = <<>> /\ qt_terms = <<>>

\* accumulate_quotients up to its loop: the line coefficients, the batch
\* coefficients and the denominator inverses.
LineBatchRandomCoeffs ==
    /\ qt_pc = "start"
    /\ qt_line_coeffs' = column_line_coeffs(qt_sample_batches, qt_random_coeff)
    /\ qt_batch_coeffs' = batch_random_coeffs(qt_sample_batches, qt_random_coeff)
    /\ qt_den_inv' = denominator_inverses(qt_sample_batches, qt_log_size)
    /\ qt_pc' = "rows"
    /\ UNCHANGED <<qt_log_size, qt_columns, qt_random_coeff, qt_sample_batches, qt_row,
                   qt_values, qt_terms, hn_vars, cl_vars, mk_vars, gr_vars, cn_vars>>

\* One pass of accumulate_quotients' loop over the rows.
AccumulateRow ==
    /\ qt_pc = "rows"
    /\ qt_row < CircleDomain_size(qt_log_size)
    /\ LET domain_point ==
               CircleDomain_at(qt_log_size, bit_reverse_index(qt_row, qt_log_size))
           row_value ==
               accumulate_row_quotients(qt_sample_batches, qt_columns, qt_line_coeffs,
                   qt_batch_coeffs, qt_den_inv, qt_row, domain_point, qt_random_coeff)
       IN /\ qt_values' = Append(qt_values, row_value)
          /\ qt_terms' = [k \in 1..Len(qt_sample_batches) |->
                             batch_quotient(qt_sample_batches[k], qt_line_coeffs[k],
                                 qt_den_inv[k], qt_columns, qt_row, domain_point,
                                 qt_random_coeff)]
    /\ qt_row' = qt_row + 1
    /\ qt_pc' = IF qt_row + 1 = CircleDomain_size(qt_log_size) THEN "done" ELSE "rows"
    /\ UNCHANGED <<qt_log_size, qt_columns, qt_random_coeff, qt_sample_batches,
                   qt_line_coeffs, qt_batch_coeffs, qt_den_inv,
                   hn_vars, cl_vars, mk_vars, gr_vars, cn_vars>>

NextQuotients == LineBatchRandomCoeffs \/ AccumulateRow

SpecQuotients == InitQuotients /\ [][NextQuotients]_vars

\* alpha^n by n multiplications.
RECURSIVE AlphaPower(_, _)
AlphaPower(alpha, n) ==
    IF n = 0 THEN qm31_one ELSE qm31_mul(alpha, AlphaPower(alpha, n - 1))

\* The row the loop passed last, and the domain point it took for it.
LastRow == qt_row - 1

LastDomainPoint == CircleDomain_at(qt_log_size, bit_reverse_index(LastRow, qt_log_size))

\* The unscaled line of the i-th column of batch k, and column_i[row] - line_i(y)
\* at the last row.
SampleLine(k, i) ==
    complex_conjugate_line_coeffs_normalized(
        [point |-> qt_sample_batches[k].point,
         value |-> qt_sample_batches[k].columns_and_values[i][2]])

ColumnMinusLine(k, i) ==
    LET column_index == qt_sample_batches[k].columns_and_values[i][1]
        line == SampleLine(k, i)
    IN qm31_from_cm31(
           cm31_sub(cm31_from_m31(qt_columns[column_index + 1][LastRow + 1]),
                    cm31_add(cm31_mul_m31(line[1], LastDomainPoint[2]), line[2])))

\* Sum over i = from..n of alpha^(i - 1) * (column_i[row] - line_i(y)).
RECURSIVE IncreasingPowerSum(_, _)
IncreasingPowerSum(k, from) ==
    IF from > Len(qt_sample_batches[k].columns_and_values) THEN qm31_zero
    ELSE qm31_add(qm31_mul(AlphaPower(qt_random_coeff, from - 1), ColumnMinusLine(k, from)),
                  IncreasingPowerSum(k, from + 1))

\* C15: in a batch of several columns the line coefficients of column i are
\* the sample's coefficients scaled by alpha^i, and the batch numerator at a
\* row is the sum over i of alpha^i * (column_i[row] - line_i(y)), i counted
\* from 0.
C15_WithinBatchWeighting ==
    qt_row > 0 =>
        \A k \in 1..Len(qt_sample_batches) :
            LET n == Len(qt_sample_batches[k].columns_and_values) IN
            n > 1 =>
                /\ \A i \in 1..n : \A c \in 1..2 :
                      qm31_from_cm31(qt_line_coeffs[k][i][c]) =
                          qm31_mul(AlphaPower(qt_random_coeff, i - 1),
                                   qm31_from_cm31(SampleLine(k, i)[c]))
                /\ qt_terms[k].numerator = IncreasingPowerSum(k, 1)

\* C16: for a batch of exactly one column, what the one-column branch adds
\* to the row accumulator is what the branch for several columns computes
\* for the same batch, row, coefficients, denominator inverse and alpha.
C16_SingleColumnFastPath ==
    qt_row > 0 =>
        \A k \in 1..Len(qt_sample_batches) :
            Len(qt_sample_batches[k].columns_and_values) = 1 =>
                qt_terms[k].quotient =
                    multi_column_quotient(qt_sample_batches[k], qt_line_coeffs[k],
                        qt_den_inv[k], qt_columns, LastRow, LastDomainPoint,
                        qt_random_coeff).quotient

C16_Witness ==
    /\ qt_row > 1
    /\ Len(qt_sample_batches) = 2
    /\ qt_random_coeff = <<<<1, 2>>, <<3, 4>>>>
    /\ Len(qt_sample_batches[2].columns_and_values) = 1
    /\ qt_terms[2].quotient # qm31_zero

\* The number of columns in the batches after batch k.
RECURSIVE ColumnsAfter(_)
ColumnsAfter(k) ==
    IF k >= Len(qt_sample_batches) THEN 0
    ELSE Len(qt_sample_batches[k + 1].columns_and_values) + ColumnsAfter(k + 1)

\* accumulator * alpha^(columns of batch k) + quotient of batch k, from zero.
RECURSIVE AccumulatorAfter(_)
AccumulatorAfter(k) ==
    IF k = 0 THEN qm31_zero
    ELSE qm31_add(
            qm31_mul(AccumulatorAfter(k - 1),
                     AlphaPower(qt_random_coeff,
                                Len(qt_sample_batches[k].columns_and_values))),
            qt_terms[k].quotient)

\* Sum over the batches from k on of quotient_b * alpha^(columns after b).
RECURSIVE WeightedSum(_)
WeightedSum(k) ==
    IF k > Len(qt_sample_batches) THEN qm31_zero
    ELSE qm31_add(qm31_mul(qt_terms[k].quotient,
                           AlphaPower(qt_random_coeff, ColumnsAfter(k))),
                  WeightedSum(k + 1))

\* C17: the batch coefficient of batch b is alpha^(columns of b); the row
\* value is the accumulator that starts at zero and takes the batches in
\* order by accumulator * alpha^(columns of b) + quotient of b; and it is
\* the sum over b of quotient_b * alpha^(columns in the batches after b).
C17_CrossBatchCombination ==
    qt_row > 0 =>
        /\ \A k \in 1..Len(qt_sample_batches) :
              qt_batch_coeffs[k] =
                  AlphaPower(qt_random_coeff, Len(qt_sample_batches[k].columns_and_values))
        /\ qt_values[qt_row] = AccumulatorAfter(Len(qt_sample_batches))
        /\ qt_values[qt_row] = WeightedSum(1)

C17_Witness ==
    /\ qt_pc = "done"
    /\ Len(qt_sample_batches) = 2
    /\ Len(qt_sample_batches[1].columns_and_values) = 2
    /\ Len(qt_sample_batches[2].columns_and_values) = 1
    /\ qt_terms[1].quotient # qm31_zero
    /\ qt_random_coeff = <<<<1, 2>>, <<3, 4>>>>

====
